---- MODULE Spec2Model ----
(***************************************************************************)
(* Verification model of the @microfleet/core service kernel               *)
(* (packages/core/src/index.ts): plugin resolution and ordering, the       *)
(* attach pass, connect()/close() phase walks, the hook fan-out, the       *)
(* router extension engine and the health aggregator.                      *)
(***************************************************************************)
EXTENDS Integers, Sequences, FiniteSets, TLC

(***************************************************************************)
(* Bounds of the model.                                                    *)
(***************************************************************************)
\* longest config.plugins list, and the most plugins ever attached
MaxPlugins == 3

\* most initPlugin calls an application makes after construction
MaxLateInits == 1

\* most listeners registered for one event
MaxListeners == 2

\* most register requests an Extensions instance receives
MaxRequests == 3

\* the retry budget of a health probe (config.healthChecks)
MaxTries == 2

\* most once-listeners a signal of the process carries at a time
MaxArmed == 1

(***************************************************************************)
(* Generic helpers for the JavaScript values the code manipulates.         *)
(***************************************************************************)
\* an optional value: <<>> is null/undefined, <<v>> is the value v
None == <<>>

Some(v) == <<v>>

\* Array.prototype.indexOf: zero-based index of the first hit, -1 when absent
IndexOf(seq, x) ==
  IF \E i \in DOMAIN seq : seq[i] = x
  THEN (CHOOSE i \in DOMAIN seq : seq[i] = x /\ \A j \in 1..(i - 1) : seq[j] # x) - 1
  ELSE 0 - 1

\* [...arr].reverse()
Reverse(seq) == [i \in 1..Len(seq) |-> seq[Len(seq) + 1 - i]]

Range(seq) == {seq[i] : i \in DOMAIN seq}

(***************************************************************************)
(* constants.ts (not part of the sources at hand): the fixed phase lists.  *)
(***************************************************************************)
PluginsPriority == <<"essential", "database", "transport", "application">>

ConnectorsPriority == <<"essential", "database", "migration", "transport", "application">>

\* the keys of the ConnectorsTypes object
ConnectorsTypeNames == Range(ConnectorsPriority)

\* ConnectorsTypes[mod.type]: the connector type, undefined for any other key
ConnectorsTypes(t) == IF t \in ConnectorsTypeNames THEN Some(t) ELSE None

(***************************************************************************)
(* Plugin modules that require() can resolve.  A descriptor is             *)
(*   name, type, priority : what the module exports (priority is optional) *)
(*   requires             : the plugins its attach asserts with hasPlugin  *)
(*   expose               : what attach returns; None when it returns no   *)
(*                          object, else the set of functions exposed      *)
(***************************************************************************)
\* plugins found under ./plugins/<name>
LocalModules ==
  [validator |-> [name |-> "validator", type |-> "essential", priority |-> Some(0),
                  requires |-> {}, expose |-> None],
   logger |-> [name |-> "logger", type |-> "essential", priority |-> Some(0),
               requires |-> {}, expose |-> None],
   redisCluster |-> [name |-> "redisCluster", type |-> "database", priority |-> Some(0),
                     requires |-> {}, expose |-> Some({"connect", "close", "status"})],
   http |-> [name |-> "http", type |-> "transport", priority |-> Some(0),
             requires |-> {"validator"}, expose |-> Some({"connect", "close"})]]

\* plugins found under @microfleet/plugin-<name>; a package named like a local
\* plugin (logger) is shadowed by it
SharedModules ==
  [logger |-> [name |-> "logger", type |-> "application", priority |-> Some(0),
               requires |-> {}, expose |-> None],
   kafka |-> [name |-> "kafka", type |-> "transport", priority |-> Some(10),
              requires |-> {}, expose |-> Some({"connect", "close", "status"})],
   cassandra |-> [name |-> "cassandra", type |-> "undefined", priority |-> None,
                  requires |-> {}, expose |-> Some({"connect", "close"})]]

\* the names a configuration may list; "missing" resolves nowhere
PluginNames == (DOMAIN LocalModules) \cup (DOMAIN SharedModules) \cup {"missing"}

\* require(require.resolve(path)) or the MODULE_NOT_FOUND catch
Require(table, plugin) == IF plugin \in DOMAIN table THEN Some(table[plugin]) ELSE None

resolveModule(cur, table, plugin) == IF cur # None THEN cur ELSE Require(table, plugin)

\* paths.reduce(resolveModule, null) over [`./plugins/${plugin}`, `@microfleet/plugin-${plugin}`]
ResolvePlugin(plugin) ==
  resolveModule(resolveModule(None, LocalModules, plugin), SharedModules, plugin)

(***************************************************************************)
(* Errors are records of the constructor name and the message.             *)
(***************************************************************************)
Err(kind, message) == [kind |-> kind, message |-> message]

\* the ways a plugin's attach may throw by itself (config validation and others)
AttachErrors ==
  {Err("HttpStatusError", "validation failed"), Err("Error", "attach failed")}

\* what makes the k-th attach call of a pass throw: None, or <<k, error>>
AttachFailures ==
  {None} \cup {<<k, e>> : k \in 1..MaxPlugins, e \in AttachErrors}

(***************************************************************************)
(* pluginComparator and the sort of initPlugins.                           *)
(***************************************************************************)
\* a.priority < b.priority on optional numbers: false when either is undefined
PriorityLess(a, b) == a # None /\ b # None /\ a[1] < b[1]

\* pluginComparator without its priority branch
pluginComparator_TypeOnly(a, b) ==
  LET ap == IndexOf(PluginsPriority, a.type)
      bp == IndexOf(PluginsPriority, b.type)
  IN IF ap = bp THEN 0 ELSE IF ap < bp THEN 0 - 1 ELSE 1

pluginComparator(a, b) ==
  LET ap == IndexOf(PluginsPriority, a.type)
      bp == IndexOf(PluginsPriority, b.type)
  IN IF ap = bp
     THEN IF PriorityLess(a.priority, b.priority) THEN 0 - 1
          ELSE IF PriorityLess(b.priority, a.priority) THEN 1
          ELSE 0
     ELSE IF ap < bp THEN 0 - 1 ELSE 1

\* one insertion step of the stable sort: x goes right after the last element
\* that does not compare greater than it
InsertSorted(s, x) ==
  LET keep == {j \in 0..Len(s) : \A i \in (j + 1)..Len(s) : pluginComparator(s[i], x) > 0}
      j == CHOOSE k \in keep : \A m \in keep : k <= m
  IN SubSeq(s, 1, j) \o <<x>> \o SubSeq(s, j + 1, Len(s))

RECURSIVE SortFrom(_, _)
SortFrom(sorted, rest) ==
  IF rest = <<>> THEN sorted
  ELSE SortFrom(InsertSorted(sorted, Head(rest)), Tail(rest))

\* an initPlugins that attaches in the configured order
SortPlugins_Unsorted(mods) == mods

\* plugins.sort(this.pluginComparator): Array.prototype.sort is stable
SortPlugins(mods) == SortFrom(<<>>, mods)

(***************************************************************************)
(* State of one Microfleet instance and of the calls in flight on it.      *)
(***************************************************************************)
VARIABLES
  config,        \* this.config: plugins, hooks, sigterm
  pc,            \* "new" before the constructor ran, then "constructed" or "failed"
  thrown,        \* the error the constructor or the last initPlugin call threw
  plugins,       \* this.plugins: names of the attached plugins, in attach order
  connectors,    \* this[CONNECTORS_PROPERTY]: connector type -> handlers
  destructors,   \* this[DESTRUCTORS_PROPERTY]: connector type -> handlers
  healthChecks,  \* this[HEALTH_CHECKS_PROPERTY]
  attachLog,     \* history: each call of an attach function, with this.plugins then
                 \* and the error the function threw, if it threw
  listeners,     \* the EventEmitter's listeners: event -> functions, in order
  passEmits,     \* history: the events emitted while the constructor ran, each with
                 \* the listeners it had then and what emit threw
  walk,          \* the connect() and the close() call: position of processAndEmit
  hookCall,      \* the hook() call in flight: listeners called, their promises
  extensions,    \* the router's Extensions instance: enabled point -> handlers
  extCall,       \* the last exec() call on it and its outcome
  health,        \* the getHealthStatus() call in flight: probes, tries, summary
  emission,      \* the last emit('error', err): the listeners called, what it threw
  shutdown,      \* the exit() call in flight: its race of close() and the deadline
  proc           \* the process: its exit code, the once-listeners of its signals

kernelVars ==
  <<config, pc, thrown, plugins, connectors, destructors, healthChecks, attachLog, listeners,
    passEmits>>

extVars == <<extensions, extCall>>

sysVars == <<emission, shutdown, proc>>

\* the events of the emitter the model tracks
Events == {"error", "init", "ready", "close", "masala", "event:valid"}

\* a handler returned by the n-th attached plugin (closures are distinct per attach)
Handler(plugin, n) == [plugin |-> plugin, n |-> n]

(***************************************************************************)
(* addHandler / addConnector / addDestructor / addHealthCheck.             *)
(***************************************************************************)
\* addHandler that unshifts into either collection
addHandler_AlwaysUnshift(collection, property, type, handler) ==
  LET c == IF type \in DOMAIN collection THEN collection ELSE collection @@ (type :> <<>>)
  IN [c EXCEPT ![type] = <<handler>> \o @]

\* addHandler that pushes into either collection
addHandler_AlwaysPush(collection, property, type, handler) ==
  LET c == IF type \in DOMAIN collection THEN collection ELSE collection @@ (type :> <<>>)
  IN [c EXCEPT ![type] = Append(@, handler)]

addHandler(collection, property, type, handler) ==
  LET c == IF type \in DOMAIN collection THEN collection ELSE collection @@ (type :> <<>>)
  IN [c EXCEPT ![type] = IF property = "destructors"
                         THEN <<handler>> \o @
                         ELSE Append(@, handler)]

addConnector(collection, type, handler) == addHandler(collection, "connectors", type, handler)

addDestructor(collection, type, handler) == addHandler(collection, "destructors", type, handler)

addHealthCheck(checks, handler) == Append(checks, handler)

(***************************************************************************)
(* initPlugin on the instance state s; `failure` is the error the plugin's *)
(* own attach code throws in this call, if any.                            *)
(***************************************************************************)
\* this.hasPlugin(name), `attached` being this.plugins
hasPlugin(attached, name) == name \in Range(attached)

\* mod.attach.call(this, conf, __filename): what it throws, or what it returns
attach(mod, attached, failure) ==
  IF failure # None
  THEN [threw |-> TRUE, error |-> failure[1], expose |-> None]
  ELSE IF \E q \in mod.requires : ~hasPlugin(attached, q)
  THEN [threw |-> TRUE, expose |-> None,
        error |-> Err("NotFoundError", "validator module must be included")]
  ELSE [threw |-> FALSE, error |-> Err("", ""), expose |-> mod.expose]

\* the catch block of initPlugin: the error that is rethrown
AttachRethrow(mod, e) ==
  IF e.kind = "HttpStatusError"
  THEN Err(e.kind, "[@microfleet/core] Could not attach " \o mod.name \o ":\n" \o e.message)
  ELSE e

initPlugin(s, mod, failure) ==
  LET pluginName == mod.name
      got == attach(mod, s.plugins, failure)
      logged == Append(s.attachLog,
                       [name |-> pluginName, before |-> s.plugins,
                        error |-> IF got.threw THEN Some(got.error) ELSE None])
  IN IF got.threw
     THEN [s EXCEPT !.attachLog = logged, !.error = Some(AttachRethrow(mod, got.error))]
     ELSE LET pushed == Append(s.plugins, pluginName)
              h == Handler(pluginName, Len(pushed))
              type == ConnectorsTypes(mod.type)
          IN IF got.expose = None
             THEN [s EXCEPT !.attachLog = logged, !.plugins = pushed]
             ELSE IF type = None
             THEN [s EXCEPT !.attachLog = logged, !.plugins = pushed,
                            !.error = Some(Err("AssertionError",
                                   "Plugin type must be equal to one of connectors type"))]
             ELSE [s EXCEPT
                     !.attachLog = logged,
                     !.plugins = pushed,
                     !.connectors = IF "connect" \in got.expose[1]
                                    THEN addConnector(@, type[1], h) ELSE @,
                     !.destructors = IF "close" \in got.expose[1]
                                     THEN addDestructor(@, type[1], h) ELSE @,
                     !.healthChecks = IF "status" \in got.expose[1]
                                      THEN addHealthCheck(@, h) ELSE @]

(***************************************************************************)
(* initPlugins: resolve every name, sort, attach each, emit 'init'.        *)
(***************************************************************************)
\* the `for (const plugin of plugins) this.initPlugin(plugin)` loop; the k-th
\* call is the one `fail` makes throw; a throw ends the loop
\* a loop that goes on to the next plugin after a throw
RECURSIVE AttachAll_KeepGoing(_, _, _, _)
AttachAll_KeepGoing(s, mods, k, fail) ==
  IF mods = <<>> THEN s
  ELSE AttachAll_KeepGoing(initPlugin(s, Head(mods),
                                      IF fail # None /\ fail[1] = k THEN Some(fail[2]) ELSE None),
                           Tail(mods), k + 1, fail)

RECURSIVE AttachAll(_, _, _, _)
AttachAll(s, mods, k, fail) ==
  IF mods = <<>> \/ s.error # None THEN s
  ELSE AttachAll(initPlugin(s, Head(mods),
                            IF fail # None /\ fail[1] = k THEN Some(fail[2]) ELSE None),
                 Tail(mods), k + 1, fail)

\* the first configured name that resolves nowhere, if any
Unresolved(names) ==
  LET bad == {i \in DOMAIN names : ResolvePlugin(names[i]) = None}
  IN IF bad = {} THEN None ELSE Some(names[CHOOSE i \in bad : \A j \in bad : i <= j])

\* the collections as initPlugins first sets them: [] for every plugin type
EmptyCollection == [t \in Range(PluginsPriority) |-> <<>>]

\* an initPlugins that attaches the plugins listed before a name it cannot resolve
initPlugins_Lazy(cfg, fail) ==
  LET s0 == [plugins |-> <<>>, connectors |-> EmptyCollection,
             destructors |-> EmptyCollection, healthChecks |-> <<>>,
             attachLog |-> <<>>, error |-> None]
      bad == {i \in DOMAIN cfg.plugins : ResolvePlugin(cfg.plugins[i]) = None}
      n == IF bad = {} THEN Len(cfg.plugins)
           ELSE (CHOOSE i \in bad : \A j \in bad : i <= j) - 1
      mods == [i \in 1..n |-> ResolvePlugin(cfg.plugins[i])[1]]
      s == AttachAll(s0, SortPlugins(mods), 1, fail)
  IN IF bad = {} \/ s.error # None THEN s
     ELSE [s EXCEPT !.error = Some(Err("Error", "failed to init " \o cfg.plugins[n + 1]))]

initPlugins(cfg, fail) ==
  LET s0 == [plugins |-> <<>>, connectors |-> EmptyCollection,
             destructors |-> EmptyCollection, healthChecks |-> <<>>,
             attachLog |-> <<>>, error |-> None]
      bad == Unresolved(cfg.plugins)
      mods == [i \in DOMAIN cfg.plugins |-> ResolvePlugin(cfg.plugins[i])[1]]
  IN IF bad # None
     THEN [s0 EXCEPT !.error = Some(Err("Error", "failed to init " \o bad[1]))]
     ELSE AttachAll(s0, SortPlugins(mods), 1, fail)

(***************************************************************************)
(* emit('error', err) and the default handler onError.                     *)
(***************************************************************************)
IdleEmit == [status |-> "idle", err |-> None, listeners |-> <<>>, calls |-> <<>>, threw |-> None]

\* a default handler that counts itself as a listener
onError_CountsItself(ls, err) == IF Len(ls["error"]) > 0 THEN None ELSE Some(err)

\* onError(err): what it throws; nothing when 'error' has more than one listener
onError(ls, err) == IF Len(ls["error"]) > 1 THEN None ELSE Some(err)

\* one call of a listener of 'error' with err: what the listener throws
ErrorListenerCall(ls, fn, err) == IF fn = "onError" THEN onError(ls, err) ELSE None

\* EventEmitter.emit: the listeners registered at the time of the call are
\* called in order with err; a throw of one of them leaves emit
RECURSIVE EmitLoop(_, _, _, _)
EmitLoop(ls, fns, err, e) ==
  IF fns = <<>> THEN e
  ELSE LET out == ErrorListenerCall(ls, Head(fns), err)
           called == [e EXCEPT !.calls = Append(@, [listener |-> Head(fns), err |-> err,
                                                    threw |-> out # None])]
       IN IF out # None THEN [called EXCEPT !.threw = out]
          ELSE EmitLoop(ls, Tail(fns), err, called)

\* this.emit('error', err)
emit(ls, err) ==
  EmitLoop(ls, ls["error"], err,
           [IdleEmit EXCEPT !.status = "done", !.err = Some(err), !.listeners = ls["error"]])

(***************************************************************************)
(* The constructor.                                                        *)
(***************************************************************************)
\* toArray: a lone function becomes a one-element list
toArray(x) == IF x.array THEN x.value ELSE <<x.value>>

\* this.on(eventName, hook) for every entry of config.hooks, each list in order
SetupHooks(ls, hooks) ==
  [e \in Events |-> IF e \in DOMAIN hooks THEN ls[e] \o toArray(hooks[e]) ELSE ls[e]]

\* this.on(event, fn)
On(ls, event, fn) == [ls EXCEPT ![event] = Append(@, fn)]

\* the listeners there are while initPlugins runs, had the hooks been set up
\* ahead of it
PassListeners_WithHooks(cfg) ==
  SetupHooks(On([e \in Events |-> <<>>], "error", "onError"), cfg.hooks)

\* the listeners there are while initPlugins runs: this.on('error', this.onError)
\* is the only on() call ahead of it
PassListeners(cfg) == On([e \in Events |-> <<>>], "error", "onError")

\* this.emit('error', err) by the attach function of a plugin, as the record
\* of the emission
emitError(ls, err) ==
  LET r == emit(ls, err)
  IN [event |-> "error", err |-> Some(err), listeners |-> r.listeners, threw |-> r.threw]

\* this.emit('init') at the end of initPlugins; the listeners of 'init' are
\* application functions, which return
emitInit(ls) == [event |-> "init", err |-> None, listeners |-> ls["init"], threw |-> None]

\* new Microfleet(opts): the error listener, initPlugins, the hooks, the
\* sigterm listener.  A throw of initPlugins leaves the instance half built.
\* The k-th attach call fails by throwing its error, or by emitting it as an
\* 'error' event: what emit throws is then what the attach call throws.
Construct ==
  /\ pc = "new"
  /\ \E fail \in AttachFailures, emits \in BOOLEAN :
       /\ emits => fail # None
       /\ LET l0 == PassListeners(config)
              thrower == initPlugins(config, fail)
              \* the k-th attach call is reached
              ran == /\ emits
                     /\ Len(thrower.attachLog) >= fail[1]
                     /\ thrower.attachLog[fail[1]].error = Some(fail[2])
              emitted == IF ran THEN <<emitError(l0, fail[2])>> ELSE <<>>
              s == IF ran /\ emitted[1].threw = None
                   THEN initPlugins(config, None) ELSE thrower
              l1 == SetupHooks(l0, config.hooks)
              l2 == IF config.sigterm THEN On(l1, "ready", "installSignals") ELSE l1
          IN /\ plugins' = s.plugins
             /\ connectors' = s.connectors
             /\ destructors' = s.destructors
             /\ healthChecks' = s.healthChecks
             /\ attachLog' = s.attachLog
             /\ thrown' = s.error
             /\ pc' = IF s.error = None THEN "constructed" ELSE "failed"
             /\ listeners' = IF s.error = None THEN l2 ELSE l0
             /\ passEmits' = IF s.error = None THEN Append(emitted, emitInit(l0))
                              ELSE emitted
  /\ UNCHANGED <<config, walk, hookCall, extVars, health, sysVars>>

(***************************************************************************)
(* The process, and what the end of a connect() or close() does to it and  *)
(* to an exit() that waits for the close().                                *)
(***************************************************************************)
Signals == {"SIGTERM", "SIGINT"}

\* the process: not exited, no listener on its signals
NewProcess == [exitCode |-> None, signals |-> [sig \in Signals |-> 0]]

\* process.exit was not called
Alive == proc.exitCode = None

IdleExit == [status |-> "idle", timer |-> "off", error |-> None]

\* the listener of 'ready' the constructor adds under config.sigterm:
\* process.once('SIGTERM', this.exit) and process.once('SIGINT', this.exit)
InstallSignals(p, ls) ==
  LET n == Cardinality({i \in DOMAIN ls["ready"] : ls["ready"][i] = "installSignals"})
  IN [p EXCEPT !.signals = [sig \in Signals |-> @[sig] + n]]

\* an exit() that takes a rejected close() for a finished one
exitRace_IgnoreReject(sd, w) ==
  IF sd.status # "racing" THEN sd
  ELSE IF w.status \in {"resolved", "rejected"} THEN [sd EXCEPT !.status = "resolved"]
  ELSE sd

\* the await of Promise.race in exit(), w being the close() it started: a
\* close() that resolved ends exit(); one that rejected goes to the catch
\* block, which calls process.exit(128)
exitRace(sd, w) ==
  IF sd.status # "racing" THEN sd
  ELSE IF w.status = "resolved" THEN [sd EXCEPT !.status = "resolved"]
  ELSE IF w.status = "rejected" THEN [sd EXCEPT !.status = "terminated", !.error = w.error]
  ELSE sd

\* a constructor that installs the signal listeners on any step of connect()
WalkStep_InstallOnCall(kind, w) ==
  LET sd == IF kind = "close" THEN exitRace(shutdown, w) ELSE shutdown
      p == IF kind = "connect"
           THEN [proc EXCEPT !.signals = [sig \in Signals |-> 1]] ELSE proc
  IN /\ walk' = [walk EXCEPT ![kind] = w]
     /\ shutdown' = sd
     /\ proc' = IF sd.status = "terminated" THEN [p EXCEPT !.exitCode = Some(128)] ELSE p

\* the walk of `kind` moved to w: the event it emitted runs its listeners, and
\* an exit() that races this close() sees it settle
WalkStep(kind, w) ==
  LET sd == IF kind = "close" THEN exitRace(shutdown, w) ELSE shutdown
      p == IF kind = "connect" /\ w.status = "resolved"
           THEN InstallSignals(proc, listeners) ELSE proc
  IN /\ walk' = [walk EXCEPT ![kind] = w]
     /\ shutdown' = sd
     /\ proc' = IF sd.status = "terminated" THEN [p EXCEPT !.exitCode = Some(128)] ELSE p

(***************************************************************************)
(* processAndEmit, connect() and close().                                  *)
(***************************************************************************)
Kinds == {"connect", "close"}

IdleWalk ==
  [status |-> "idle", pi |-> 0, hi |-> 0, started |-> <<>>, responses |-> <<>>,
   emitted |-> <<>>, error |-> None]

\* the position of the next handler the two nested loops reach from (pi, hi):
\* a type without an entry is skipped, a type with no handler left is left
RECURSIVE NextHandler(_, _, _, _)
NextHandler(collection, priority, pi, hi) ==
  IF pi > Len(priority) THEN None
  ELSE IF priority[pi] \notin DOMAIN collection
  THEN NextHandler(collection, priority, pi + 1, 1)
  ELSE IF hi > Len(collection[priority[pi]])
  THEN NextHandler(collection, priority, pi + 1, 1)
  ELSE Some([pi |-> pi, hi |-> hi])

\* the error a handler h fails with
HandlerError(h) == Err("Error", h.plugin)

\* a processAndEmit that emits the event although a handler threw
processAndEmit_EmitOnFailure(w, collection, event, priority, pi, hi, throws) ==
  LET nxt == NextHandler(collection, priority, pi, hi)
  IN IF nxt = None
     THEN [w EXCEPT !.status = "resolved", !.emitted = Append(@, event)]
     ELSE LET handler == collection[priority[nxt[1].pi]][nxt[1].hi]
              called == [w EXCEPT !.pi = nxt[1].pi, !.hi = nxt[1].hi,
                                  !.started = Append(@, handler)]
          IN IF throws
             THEN [called EXCEPT !.status = "rejected",
                                 !.emitted = Append(@, event),
                                 !.error = Some(HandlerError(handler))]
             ELSE [called EXCEPT !.status = "awaiting"]

\* a processAndEmit that calls the handlers of a phase all at once
processAndEmit_WholePhase(w, collection, event, priority, pi, hi, throws) ==
  LET nxt == NextHandler(collection, priority, pi, hi)
  IN IF nxt = None
     THEN [w EXCEPT !.status = "resolved", !.emitted = Append(@, event)]
     ELSE LET phase == collection[priority[nxt[1].pi]]
              called == [w EXCEPT !.pi = nxt[1].pi, !.hi = Len(phase),
                                  !.started = @ \o SubSeq(phase, nxt[1].hi, Len(phase))]
          IN IF throws
             THEN [called EXCEPT !.status = "rejected",
                                 !.error = Some(HandlerError(phase[nxt[1].hi]))]
             ELSE [called EXCEPT !.status = "awaiting"]

\* a processAndEmit that emits the event whenever it calls a handler
processAndEmit_EmitPerHandler(w, collection, event, priority, pi, hi, throws) ==
  LET nxt == NextHandler(collection, priority, pi, hi)
  IN IF nxt = None
     THEN [w EXCEPT !.status = "resolved", !.emitted = Append(@, event)]
     ELSE LET handler == collection[priority[nxt[1].pi]][nxt[1].hi]
              called == [w EXCEPT !.pi = nxt[1].pi, !.hi = nxt[1].hi,
                                  !.started = Append(@, handler),
                                  !.emitted = Append(@, event)]
          IN IF throws
             THEN [called EXCEPT !.status = "rejected",
                                 !.error = Some(HandlerError(handler))]
             ELSE [called EXCEPT !.status = "awaiting"]

\* processAndEmit run from loop position (pi, hi) up to its next await, or to
\* its end; `throws` tells whether the handler it calls throws synchronously
processAndEmit(w, collection, event, priority, pi, hi, throws) ==
  LET nxt == NextHandler(collection, priority, pi, hi)
  IN IF nxt = None
     THEN [w EXCEPT !.status = "resolved", !.emitted = Append(@, event)]
     ELSE LET handler == collection[priority[nxt[1].pi]][nxt[1].hi]
              called == [w EXCEPT !.pi = nxt[1].pi, !.hi = nxt[1].hi,
                                  !.started = Append(@, handler)]
          IN IF throws
             THEN [called EXCEPT !.status = "rejected",
                                 !.error = Some(HandlerError(handler))]
             ELSE [called EXCEPT !.status = "awaiting"]

\* collections that a getHealthStatus() in flight turns around
getCollection_TurnedByHealth(kind) ==
  LET c == IF kind = "connect" THEN connectors ELSE destructors
  IN IF health.status = "idle" THEN c ELSE [t \in DOMAIN c |-> Reverse(c[t])]

getCollection(kind) == IF kind = "connect" THEN connectors ELSE destructors

EventOf(kind) == IF kind = "connect" THEN "ready" ELSE "close"

\* the `priority` argument connect() and close() pass
PriorityOf(kind) ==
  IF kind = "connect" THEN ConnectorsPriority ELSE Reverse(ConnectorsPriority)

Call(kind) ==
  /\ pc = "constructed"
  /\ Alive
  /\ walk[kind].status = "idle"
  /\ kind = "connect" => \A sig \in Signals : proc.signals[sig] < MaxArmed
  /\ \E throws \in BOOLEAN :
       WalkStep(kind, processAndEmit(IdleWalk, getCollection(kind), EventOf(kind),
                                     PriorityOf(kind), 1, 1, throws))
  /\ UNCHANGED <<kernelVars, hookCall, extVars, health, emission>>

\* service.connect()
Connect == Call("connect")

\* service.close()
Close == Call("close")

\* the promise of the awaited handler settles and processAndEmit resumes
HandlerSettles ==
  \E kind \in Kinds :
    /\ Alive
    /\ walk[kind].status = "awaiting"
    /\ LET w == walk[kind]
           handler == getCollection(kind)[PriorityOf(kind)[w.pi]][w.hi]
       IN \/ \E throws \in BOOLEAN :
               WalkStep(kind, processAndEmit([w EXCEPT !.responses = Append(@, handler)],
                                             getCollection(kind), EventOf(kind),
                                             PriorityOf(kind), w.pi, w.hi + 1, throws))
          \/ WalkStep(kind, [w EXCEPT !.status = "rejected",
                                      !.error = Some(HandlerError(handler))])
    /\ UNCHANGED <<kernelVars, hookCall, extVars, health, emission>>

\* the caller has seen the outcome of connect()/close(); the call is over (a
\* close() called by exit() is over with that exit())
CallReturns ==
  \E kind \in Kinds :
    /\ Alive
    /\ kind = "close" => shutdown.timer = "off"
    /\ walk[kind].status \in {"resolved", "rejected"}
    /\ walk' = [walk EXCEPT ![kind] = IdleWalk]
    /\ UNCHANGED <<kernelVars, hookCall, extVars, health, sysVars>>

\* service.initPlugin(mod) by the embedding application, after construction
\* and while no connect()/close() is in flight
InitPluginCall ==
  /\ pc = "constructed"
  /\ Len(attachLog) < MaxPlugins
  /\ Len(attachLog) - Len(config.plugins) < MaxLateInits
  /\ \A kind \in Kinds : walk[kind].status = "idle"
  /\ \E name \in PluginNames, failure \in {None} \cup {Some(e) : e \in AttachErrors} :
       /\ ResolvePlugin(name) # None
       /\ LET s == initPlugin([plugins |-> plugins, connectors |-> connectors,
                               destructors |-> destructors, healthChecks |-> healthChecks,
                               attachLog |-> attachLog, error |-> None],
                              ResolvePlugin(name)[1], failure)
          IN /\ plugins' = s.plugins
             /\ connectors' = s.connectors
             /\ destructors' = s.destructors
             /\ healthChecks' = s.healthChecks
             /\ attachLog' = s.attachLog
             /\ thrown' = s.error
  /\ UNCHANGED <<config, pc, listeners, passEmits, walk, hookCall, extVars, health, sysVars>>

(***************************************************************************)
(* exit(): close() raced against the 10 seconds of Bluebird.delay.         *)
(***************************************************************************)
\* this.log is there once the logger plugin is attached
hasLog(attached) == "logger" \in Range(attached)

\* Bluebird.delay(10000).throw(new Bluebird.TimeoutError(...)) rejects: when
\* the race is still open it is lost, and the catch block calls process.exit(128)
deadline(sd) ==
  IF sd.status = "racing"
  THEN [sd EXCEPT !.status = "terminated", !.timer = "elapsed",
                  !.error = Some(Err("TimeoutError", "failed to close after 10 seconds"))]
  ELSE [sd EXCEPT !.timer = "elapsed"]

\* the process receives a signal that carries the once-listener this.exit:
\* exit() logs, which throws without a logger, then starts close() and the
\* timer and awaits their race
Signal ==
  /\ Alive
  /\ shutdown.status = "idle"
  /\ walk["close"].status = "idle"
  /\ \E sig \in Signals :
       /\ proc.signals[sig] = 1
       /\ IF ~hasLog(plugins)
          THEN /\ shutdown' = [IdleExit EXCEPT
                                 !.status = "rejected",
                                 !.error = Some(Err("TypeError",
                                                    "Cannot read property 'info' of undefined"))]
               /\ proc' = [proc EXCEPT !.signals[sig] = 0]
               /\ walk' = walk
          ELSE \E throws \in BOOLEAN :
                 LET w == processAndEmit(IdleWalk, getCollection("close"), EventOf("close"),
                                         PriorityOf("close"), 1, 1, throws)
                     sd == exitRace([IdleExit EXCEPT !.status = "racing", !.timer = "armed"], w)
                 IN /\ walk' = [walk EXCEPT !["close"] = w]
                    /\ shutdown' = sd
                    /\ proc' = [proc EXCEPT
                                  !.signals[sig] = 0,
                                  !.exitCode = IF sd.status = "terminated"
                                               THEN Some(128) ELSE @]
  /\ UNCHANGED <<kernelVars, hookCall, extVars, health, emission>>

\* the 10 seconds are over
DeadlineElapses ==
  /\ Alive
  /\ shutdown.timer = "armed"
  /\ shutdown' = deadline(shutdown)
  /\ proc' = IF shutdown'.status = "terminated"
             THEN [proc EXCEPT !.exitCode = Some(128)] ELSE proc
  /\ UNCHANGED <<kernelVars, walk, hookCall, extVars, health, emission>>

\* exit() is over without a forced end of the process, and so is its close()
ExitReturns ==
  /\ Alive
  /\ shutdown.status \in {"resolved", "rejected"}
  /\ shutdown.timer # "armed"
  /\ shutdown' = IdleExit
  /\ walk' = IF shutdown.status = "resolved" THEN [walk EXCEPT !["close"] = IdleWalk] ELSE walk
  /\ UNCHANGED <<kernelVars, hookCall, extVars, health, emission, proc>>

(***************************************************************************)
(* hook(event, ...args).                                                   *)
(***************************************************************************)
\* the events hooks are registered on and called for
HookEvents == {"masala", "event:valid"}

\* a config.hooks without entries
NoHooks == [e \in {} |-> 0]

\* the listener functions an application registers
ListenerFns == {"chai", "eventValid"}

\* the argument lists hook() is called with
ArgLists == {<<"dorothy", "chris">>}

IdleHook ==
  [status |-> "idle", event |-> "", args |-> <<>>, listeners |-> <<>>, invoked |-> <<>>,
   work |-> <<>>, threw |-> 0, settled |-> <<>>, result |-> <<>>, error |-> None]

\* what a listener returns, or what its promise fulfils with
ListenerValue(fn, args) == [by |-> fn, args |-> args]

\* the error a listener throws, or rejects its promise with
ListenerError(fn) == Err("Error", fn)

\* listener.apply(this, args): one invocation as recorded in the call
Invocation(fn, args) == [listener |-> fn, args |-> args]

\* a promise in `work`, or a plain value (which Promise.all takes as fulfilled)
Fulfilled(v) == [state |-> "fulfilled", outcome |-> Some(v)]

Rejected(e) == [state |-> "rejected", outcome |-> Some(e)]

Pending == [state |-> "pending", outcome |-> None]

\* the for loop of hook(): listeners are called in order, each result pushed to
\* `work`; does[i] tells whether the i-th listener returns a value, returns a
\* promise, or throws.  A throw leaves the loop: it rejects the async function.
HookLoop(ls, args, does) ==
  LET throwers == {i \in DOMAIN ls : does[i] = "throws"}
      t == IF throwers = {} THEN 0 ELSE CHOOSE i \in throwers : \A j \in throwers : i <= j
  IN [invoked |-> [i \in 1..(IF t = 0 THEN Len(ls) ELSE t) |-> Invocation(ls[i], args)],
      threw |-> t,
      work |-> [i \in 1..(IF t = 0 THEN Len(ls) ELSE t - 1) |->
                  IF does[i] = "value" THEN Fulfilled(ListenerValue(ls[i], args))
                  ELSE Pending]]

\* a Promise.all that collects the values as the promises settle
PromiseAll_CompletionOrder(work, settled) ==
  LET bad == {k \in DOMAIN settled : work[settled[k]].state = "rejected"}
      plain == SelectSeq([i \in DOMAIN work |-> i],
                         LAMBDA i : work[i].state = "fulfilled" /\ i \notin Range(settled))
      order == plain \o settled
  IN IF bad # {}
     THEN [status |-> "rejected", result |-> <<>>,
           error |-> work[settled[CHOOSE k \in bad : \A m \in bad : k <= m]].outcome]
     ELSE IF \E i \in DOMAIN work : work[i].state = "pending"
     THEN [status |-> "pending", result |-> <<>>, error |-> None]
     ELSE [status |-> "resolved", error |-> None,
           result |-> [k \in DOMAIN order |-> work[order[k]].outcome[1]]]

\* a Promise.all that waits for every promise and overlooks the rejections
PromiseAll_Settled(work, settled) ==
  IF \E i \in DOMAIN work : work[i].state = "pending"
  THEN [status |-> "pending", result |-> <<>>, error |-> None]
  ELSE [status |-> "resolved", error |-> None,
        result |-> [i \in DOMAIN work |-> work[i].outcome[1]]]

\* Promise.all(work), `settled` being the order in which the promises settled:
\* rejected with the first rejection, else pending while an entry is, else
\* fulfilled with the values in the order of `work`
PromiseAll(work, settled) ==
  LET bad == {k \in DOMAIN settled : work[settled[k]].state = "rejected"}
  IN IF bad # {}
     THEN [status |-> "rejected", result |-> <<>>,
           error |-> work[settled[CHOOSE k \in bad : \A m \in bad : k <= m]].outcome]
     ELSE IF \E i \in DOMAIN work : work[i].state = "pending"
     THEN [status |-> "pending", result |-> <<>>, error |-> None]
     ELSE [status |-> "resolved", error |-> None,
           result |-> [i \in DOMAIN work |-> work[i].outcome[1]]]

\* hook(event, ...args) up to the promise it returns
hook(ls, event, args, does) ==
  LET listenersOf == ls[event]
      loop == HookLoop(listenersOf, args, does)
      all == PromiseAll(loop.work, <<>>)
  IN [IdleHook EXCEPT
        !.event = event, !.args = args, !.listeners = listenersOf,
        !.invoked = loop.invoked, !.work = loop.work, !.threw = loop.threw,
        !.status = IF loop.threw # 0 THEN "rejected" ELSE all.status,
        !.result = IF loop.threw # 0 THEN <<>> ELSE all.result,
        !.error = IF loop.threw # 0
                  THEN Some(ListenerError(listenersOf[loop.threw])) ELSE None]

\* the promise the i-th listener returned settles, and with it maybe the
\* promise of Promise.all, which hook() returned; when a listener threw, the
\* loop never reached Promise.all and hook() stays rejected with what was thrown
SettleWork(call, i, ok) ==
  LET fn == call.listeners[i]
      work == [call.work EXCEPT ![i] = IF ok THEN Fulfilled(ListenerValue(fn, call.args))
                                       ELSE Rejected(ListenerError(fn))]
      settled == Append(call.settled, i)
      all == PromiseAll(work, settled)
  IN IF call.threw # 0
     THEN [call EXCEPT !.work = work, !.settled = settled]
     ELSE [call EXCEPT !.work = work, !.settled = settled, !.status = all.status,
                       !.result = all.result, !.error = all.error]

\* service.hook(event, ...args)
HookCall ==
  /\ pc = "constructed"
  /\ hookCall.status = "idle"
  /\ \E event \in HookEvents, args \in ArgLists :
       \E does \in [DOMAIN listeners[event] -> {"value", "promise", "throws"}] :
         hookCall' = hook(listeners, event, args, does)
  /\ UNCHANGED <<kernelVars, walk, extVars, health, sysVars>>

\* a promise returned by a listener fulfils or rejects
ListenerSettles ==
  /\ hookCall.status # "idle"
  /\ \E i \in DOMAIN hookCall.work, ok \in BOOLEAN :
       /\ hookCall.work[i].state = "pending"
       /\ hookCall' = SettleWork(hookCall, i, ok)
  /\ UNCHANGED <<kernelVars, walk, extVars, health, sysVars>>

\* the caller has seen hook() settle; the call is over
HookReturns ==
  /\ hookCall.status \in {"resolved", "rejected"}
  /\ hookCall' = IdleHook
  /\ UNCHANGED <<kernelVars, walk, extVars, health, sysVars>>

\* service.on(event, fn) by the embedding application
Subscribe ==
  /\ pc = "constructed"
  /\ \E event \in HookEvents, fn \in ListenerFns :
       /\ Len(listeners[event]) < MaxListeners
       /\ listeners' = On(listeners, event, fn)
  /\ UNCHANGED <<config, pc, thrown, plugins, connectors, destructors, healthChecks,
                 attachLog, passEmits, walk, hookCall, extVars, health, sysVars>>

\* a config.hooks value: a lone function, or a list of functions
OneHook(fn) == [array |-> FALSE, value |-> fn]

ManyHooks(fns) == [array |-> TRUE, value |-> fns]

\* the config.hooks objects the hook bus is built with
HookConfigs ==
  {NoHooks,
   "masala" :> OneHook("chai"),
   "masala" :> ManyHooks(<<>>),
   "event:valid" :> ManyHooks(<<"eventValid", "chai">>),
   ("masala" :> OneHook("chai")) @@ ("event:valid" :> ManyHooks(<<"chai", "eventValid">>))}

(***************************************************************************)
(* The router's extension engine (plugins/router/extensions): the class    *)
(* Extensions with its constructor, register and exec.                     *)
(***************************************************************************)
\* the LifecycleRequestType points a configuration may enable
KnownPoints == {"preHandler", "postHandler"}

\* the names register and exec are called with
PointNames == KnownPoints \cup {"postPreHandler"}

\* handlers: Bluebird.resolve, () => Bluebird.reject(new Error('q')), and one
\* that resolves to something else than its input
ExtHandlers == {"resolve", "reject", "stamp"}

\* the args exec is called with
ExecArgs == {<<"foo">>}

Registration(point, handler) == [point |-> point, handler |-> handler]

\* the ExtensionsConfig objects: the default one, and those of the tests
ExtConfigs ==
  {[enabled |-> e, register |-> r] :
     e \in SUBSET KnownPoints,
     r \in {<<>>,
            <<<<Registration("postHandler", "resolve")>>>>,
            <<<<Registration("preHandler", "reject"), Registration("postHandler", "stamp")>>,
              <<Registration("postPreHandler", "resolve")>>>>}}

IdleExec ==
  [status |-> "idle", point |-> "", args |-> <<>>, invoked |-> <<>>, result |-> <<>>,
   error |-> None]

\* a NotSupportedError whose message is the bare name
NotSupportedError_Bare(name) == Err("NotSupportedError", name)

\* new NotSupportedError(name) of common-errors
NotSupportedError(name) == Err("NotSupportedError", "Not Supported: " \o name)

\* a register that puts the newest handler first
register_Prepend(handlers, name, handler) ==
  IF name \in DOMAIN handlers
  THEN [handlers EXCEPT ![name] = <<handler>> \o @]
  ELSE handlers

\* a register that enables the point it is given
register_Enabling(handlers, name, handler) ==
  IF name \in DOMAIN handlers
  THEN [handlers EXCEPT ![name] = Append(@, handler)]
  ELSE handlers @@ (name :> <<handler>>)

\* register(name, handler): stored when the point is enabled, ignored otherwise
register(handlers, name, handler) ==
  IF name \in DOMAIN handlers
  THEN [handlers EXCEPT ![name] = Append(@, handler)]
  ELSE handlers

\* autoRegister(register): every entry of every list, in order
RECURSIVE Flatten(_)
Flatten(lists) == IF lists = <<>> THEN <<>> ELSE Head(lists) \o Flatten(Tail(lists))

RECURSIVE autoRegister(_, _)
autoRegister(handlers, entries) ==
  IF entries = <<>> THEN handlers
  ELSE autoRegister(register(handlers, Head(entries).point, Head(entries).handler),
                    Tail(entries))

\* new Extensions(config): an empty list per enabled point, then autoRegister
NewExtensions(cfg) == autoRegister([p \in cfg.enabled |-> <<>>], Flatten(cfg.register))

\* what one handler does with the args it is passed
HandlerOutcome(handler, args) ==
  IF handler = "resolve" THEN Fulfilled(args)
  ELSE IF handler = "stamp" THEN Fulfilled(<<"stamp">> \o args)
  ELSE Rejected(Err("Error", "q"))

\* exec(name, args): Not Supported for a point that is not enabled; else the
\* handlers of the point are invoked in order with args, the call fails with
\* the first failure, and it resolves to the one result or the list of results
exec(handlers, name, args) ==
  IF name \notin DOMAIN handlers
  THEN [IdleExec EXCEPT !.status = "rejected", !.point = name, !.args = args,
                        !.error = Some(NotSupportedError(name))]
  ELSE LET hs == handlers[name]
           outs == [i \in DOMAIN hs |-> HandlerOutcome(hs[i], args)]
           bad == {i \in DOMAIN hs : outs[i].state = "rejected"}
           results == [i \in DOMAIN hs |-> outs[i].outcome[1]]
       IN [IdleExec EXCEPT
             !.point = name, !.args = args,
             !.invoked = [i \in DOMAIN hs |-> [point |-> name, handler |-> hs[i],
                                               args |-> args]],
             !.status = IF bad = {} THEN "resolved" ELSE "rejected",
             !.result = IF bad # {} THEN <<>>
                        ELSE IF Len(hs) = 1 THEN results[1] ELSE results,
             !.error = IF bad = {} THEN None
                       ELSE outs[CHOOSE i \in bad : \A j \in bad : i <= j].outcome]

\* new Extensions(config)
ExtConstruct ==
  /\ ~extensions.built
  /\ extensions' = [extensions EXCEPT
                      !.built = TRUE,
                      !.handlers = NewExtensions(extensions.config),
                      !.requests = Flatten(extensions.config.register)]
  /\ UNCHANGED <<kernelVars, walk, hookCall, extCall, health, sysVars>>

\* extensions.register(point, handler); the outcome of an earlier exec is
\* forgotten, as it speaks of the handlers of that time
ExtRegister ==
  /\ extensions.built
  /\ Len(extensions.requests) < MaxRequests
  /\ \E point \in PointNames, handler \in ExtHandlers :
       extensions' = [extensions EXCEPT
                        !.handlers = register(@, point, handler),
                        !.requests = Append(@, Registration(point, handler))]
  /\ extCall' = IdleExec
  /\ UNCHANGED <<kernelVars, walk, hookCall, health, sysVars>>

\* extensions.exec(point, args)
ExtExec ==
  /\ extensions.built
  /\ \E point \in PointNames, args \in ExecArgs :
       extCall' = exec(extensions.handlers, point, args)
  /\ UNCHANGED <<kernelVars, walk, hookCall, extensions, health, sysVars>>

(***************************************************************************)
(* getHealthStatus (utils/pluginHealthStatus): every registered probe is   *)
(* tried up to the retry budget, each in its own time.                     *)
(***************************************************************************)
PLUGIN_STATUS_OK == "ok"

PLUGIN_STATUS_FAIL == "fail"

\* what one try of a probe may end with
ProbeOutcomes == {"ok", "error", "timeout"}

IdleHealth ==
  [status |-> "idle", probes |-> <<>>, tries |-> <<>>, state |-> <<>>, last |-> <<>>,
   summary |-> [status |-> "", alive |-> <<>>, failed |-> <<>>]]

\* this.getHealthChecks()
getHealthChecks == healthChecks

\* the probes of `probes` whose state is `wanted`, in the order of registration
RECURSIVE ProbesIn(_, _, _)
ProbesIn(probes, state, wanted) ==
  IF probes = <<>> THEN <<>>
  ELSE (IF Head(state) = wanted THEN <<Head(probes)>> ELSE <<>>)
         \o ProbesIn(Tail(probes), Tail(state), wanted)

\* a summary whose status is OK as soon as some probe is alive
HealthSummary_OkIfAnyAlive(probes, state) ==
  LET alive == ProbesIn(probes, state, "alive")
  IN [status |-> IF alive # <<>> THEN PLUGIN_STATUS_OK ELSE PLUGIN_STATUS_FAIL,
      alive |-> alive,
      failed |-> ProbesIn(probes, state, "failed")]

\* the summary {status, alive, failed}
HealthSummary(probes, state) ==
  LET failed == ProbesIn(probes, state, "failed")
  IN [status |-> IF failed = <<>> THEN PLUGIN_STATUS_OK ELSE PLUGIN_STATUS_FAIL,
      alive |-> ProbesIn(probes, state, "alive"),
      failed |-> failed]

\* the call once the state of some probe changed: done when none is pending
HealthProgress(h, state) ==
  IF \E i \in DOMAIN state : state[i] = "pending"
  THEN [h EXCEPT !.state = state]
  ELSE [h EXCEPT !.state = state, !.status = "done",
                 !.summary = HealthSummary(h.probes, state)]

\* getHealthStatus.call(this, this.getHealthChecks(), this.config.healthChecks)
getHealthStatus(handlers) ==
  HealthProgress([IdleHealth EXCEPT !.status = "running", !.probes = handlers,
                                    !.tries = [i \in DOMAIN handlers |-> 0],
                                    !.last = [i \in DOMAIN handlers |-> ""]],
                 [i \in DOMAIN handlers |-> "pending"])

\* a getHealthStatus that gives up at the first probe that failed
ProbeTried_StopOnFailure(h, i, outcome) ==
  LET tries == h.tries[i] + 1
      state == IF outcome = "ok" THEN "alive"
               ELSE IF tries >= MaxTries THEN "failed"
               ELSE "pending"
      states == [h.state EXCEPT ![i] = state]
      seen == [h EXCEPT !.tries[i] = tries, !.last[i] = outcome]
  IN IF state = "failed"
     THEN [seen EXCEPT !.state = states, !.status = "done",
                       !.summary = HealthSummary(h.probes, states)]
     ELSE HealthProgress(seen, states)

\* one try of probe i ends: alive when it passed, failed when the budget is spent
ProbeTried(h, i, outcome) ==
  LET tries == h.tries[i] + 1
      state == IF outcome = "ok" THEN "alive"
               ELSE IF tries >= MaxTries THEN "failed"
               ELSE "pending"
  IN HealthProgress([h EXCEPT !.tries[i] = tries, !.last[i] = outcome],
                    [h.state EXCEPT ![i] = state])

\* service.getHealthStatus()
GetHealthStatus ==
  /\ pc = "constructed"
  /\ health.status = "idle"
  /\ health' = getHealthStatus(getHealthChecks)
  /\ UNCHANGED <<kernelVars, walk, hookCall, extVars, sysVars>>

\* a try of a probe passes, fails or times out
ProbeSettles ==
  /\ health.status = "running"
  /\ \E i \in DOMAIN health.probes, outcome \in ProbeOutcomes :
       /\ health.state[i] = "pending"
       /\ health' = ProbeTried(health, i, outcome)
  /\ UNCHANGED <<kernelVars, walk, hookCall, extVars, sysVars>>

\* the caller has the summary; the call is over
HealthReturns ==
  /\ health.status = "done"
  /\ health' = IdleHealth
  /\ UNCHANGED <<kernelVars, walk, hookCall, extVars, sysVars>>

(***************************************************************************)
(* 'error' events of a constructed instance.                               *)
(***************************************************************************)
\* the listeners an application puts on 'error'
ErrorListeners == {"logError", "alert", "reconnect"}

\* the errors service members emit
EmittedErrors ==
  {Err("Error", "connection lost"), Err("TimeoutError", "no reply"),
   Err("HttpStatusError", "bad gateway")}

\* service.on('error', fn) by the embedding application
SubscribeError ==
  /\ pc = "constructed"
  /\ Len(listeners["error"]) <= MaxListeners
  /\ \E fn \in ErrorListeners : listeners' = On(listeners, "error", fn)
  /\ UNCHANGED <<config, pc, thrown, plugins, connectors, destructors, healthChecks,
                 attachLog, passEmits, walk, hookCall, extVars, health, sysVars>>

\* a member of the service emits 'error'
EmitError ==
  /\ pc = "constructed"
  /\ \E err \in EmittedErrors : emission' = emit(listeners, err)
  /\ UNCHANGED <<kernelVars, walk, hookCall, extVars, health, shutdown, proc>>

\* the config.hooks objects that put listeners on 'error'
ErrorHookConfigs ==
  {NoHooks,
   "error" :> OneHook("logError"),
   "error" :> ManyHooks(<<"alert", "logError">>)}

(***************************************************************************)
(* The kernel's specification: any configured list of plugins, the         *)
(* constructor, later initPlugin calls, connect() and close().             *)
(***************************************************************************)
PluginLists == UNION {[1..n -> PluginNames] : n \in 0..MaxPlugins}

vars == <<config, pc, thrown, plugins, connectors, destructors, healthChecks, attachLog,
          listeners, passEmits, walk, hookCall, extensions, extCall, health, emission, shutdown, proc>>

\* the Extensions instance before its constructor ran
NoExtensions(cfg) == [built |-> FALSE, config |-> cfg, handlers |-> <<>>, requests |-> <<>>]

\* new Extensions(): nothing enabled, nothing registered
DefaultExtConfig == [enabled |-> {}, register |-> <<>>]

InitInstance ==
  /\ pc = "new"
  /\ thrown = None
  /\ plugins = <<>>
  /\ connectors = <<>>
  /\ destructors = <<>>
  /\ healthChecks = <<>>
  /\ attachLog = <<>>
  /\ listeners = [e \in Events |-> <<>>]
  /\ passEmits = <<>>
  /\ walk = [kind \in Kinds |-> IdleWalk]
  /\ hookCall = IdleHook
  /\ extensions = NoExtensions(DefaultExtConfig)
  /\ extCall = IdleExec
  /\ health = IdleHealth
  /\ emission = IdleEmit
  /\ shutdown = IdleExit
  /\ proc = NewProcess

Init ==
  /\ config \in {[plugins |-> p, hooks |-> NoHooks, sigterm |-> FALSE] : p \in PluginLists}
  /\ InitInstance

Next == Construct \/ InitPluginCall \/ Connect \/ Close \/ HandlerSettles \/ CallReturns

Spec == Init /\ [][Next]_vars

\* the constructor alone, on any configured list of plugins
NextAttach == Construct

SpecAttach == Init /\ [][NextAttach]_vars

(***************************************************************************)
(* The hook bus: an instance without plugins, any config.hooks, later       *)
(* on() calls and hook() calls.                                            *)
(***************************************************************************)
InitHook ==
  /\ config \in {[plugins |-> <<>>, hooks |-> h, sigterm |-> FALSE] : h \in HookConfigs}
  /\ InitInstance

NextHook == Construct \/ Subscribe \/ HookCall \/ ListenerSettles \/ HookReturns

SpecHook == InitHook /\ [][NextHook]_vars

(***************************************************************************)
(* The extension engine on its own: any configuration, register and exec.  *)
(***************************************************************************)
InitExt ==
  /\ config = [plugins |-> <<>>, hooks |-> NoHooks, sigterm |-> FALSE]
  /\ pc = "new"
  /\ thrown = None
  /\ plugins = <<>>
  /\ connectors = <<>>
  /\ destructors = <<>>
  /\ healthChecks = <<>>
  /\ attachLog = <<>>
  /\ listeners = [e \in Events |-> <<>>]
  /\ passEmits = <<>>
  /\ walk = [kind \in Kinds |-> IdleWalk]
  /\ hookCall = IdleHook
  /\ extensions \in {NoExtensions(cfg) : cfg \in ExtConfigs}
  /\ extCall = IdleExec
  /\ health = IdleHealth
  /\ emission = IdleEmit
  /\ shutdown = IdleExit
  /\ proc = NewProcess

NextExt == ExtConstruct \/ ExtRegister \/ ExtExec

SpecExt == InitExt /\ [][NextExt]_vars

(***************************************************************************)
(* The health aggregator over the probes of any configured plugin list.    *)
(***************************************************************************)
NextHealth == Construct \/ GetHealthStatus \/ ProbeSettles \/ HealthReturns

SpecHealth == Init /\ [][NextHealth]_vars

(***************************************************************************)
(* The error policy: an instance without plugins, any 'error' listeners    *)
(* from config.hooks and from later on() calls, and emitted errors.        *)
(***************************************************************************)
InitError ==
  /\ config \in {[plugins |-> <<>>, hooks |-> h, sigterm |-> FALSE] : h \in ErrorHookConfigs}
  /\ InitInstance

NextError == Construct \/ SubscribeError \/ EmitError

SpecError == InitError /\ [][NextError]_vars

(***************************************************************************)
(* Construction under config.hooks: hooks on 'init' and on 'error', plugins *)
(* that throw or emit 'error' while they attach, 'error' events afterwards. *)
(***************************************************************************)
\* the config.hooks objects that put listeners on 'init' and on 'error'
InitHookConfigs ==
  {NoHooks,
   "init" :> OneHook("onInit"),
   "error" :> ManyHooks(<<"logError", "alert">>),
   ("init" :> ManyHooks(<<"onInit", "announce">>)) @@ ("error" :> OneHook("logError"))}

HookedPlugins == {"validator", "logger", "http"}

HookedLists == UNION {[1..n -> HookedPlugins] : n \in 0..MaxPlugins}

InitInit ==
  /\ config \in {[plugins |-> p, hooks |-> h, sigterm |-> FALSE] :
                   p \in HookedLists, h \in InitHookConfigs}
  /\ InitInstance

NextInit == Construct \/ SubscribeError \/ EmitError

SpecInit == InitInit /\ [][NextInit]_vars

(***************************************************************************)
(* The supervised shutdown: a logger and plugins with connectors in any    *)
(* list, with and without config.sigterm, connect(), close(), signals.     *)
(***************************************************************************)
ShutdownPlugins == {"logger", "redisCluster", "kafka"}

ShutdownLists == UNION {[1..n -> ShutdownPlugins] : n \in 0..MaxPlugins}

InitExit ==
  /\ config \in {[plugins |-> p, hooks |-> NoHooks, sigterm |-> b] :
                   p \in ShutdownLists, b \in BOOLEAN}
  /\ InitInstance

NextExit ==
  \/ Construct \/ Connect \/ Close \/ HandlerSettles \/ CallReturns
  \/ Signal \/ DeadlineElapses \/ ExitReturns

SpecExit == InitExit /\ [][NextExit]_vars

(***************************************************************************)
(* A constructed service in use: connect(), close(), hook() and            *)
(* getHealthStatus() called in any order, any number of times.             *)
(***************************************************************************)
FrameConfigs ==
  {[plugins |-> <<"kafka", "redisCluster">>, hooks |-> "masala" :> OneHook("chai"),
    sigterm |-> FALSE],
   [plugins |-> <<"http", "validator", "kafka">>, hooks |-> NoHooks, sigterm |-> FALSE],
   [plugins |-> <<"redisCluster", "logger">>,
    hooks |-> "event:valid" :> ManyHooks(<<"eventValid">>), sigterm |-> FALSE]}

InitFrame ==
  /\ config \in FrameConfigs
  /\ InitInstance

NextFrame ==
  \/ Construct
  \/ Connect \/ Close \/ HandlerSettles \/ CallReturns
  \/ HookCall \/ ListenerSettles \/ HookReturns
  \/ GetHealthStatus \/ ProbeSettles \/ HealthReturns

SpecFrame == InitFrame /\ [][NextFrame]_vars

(***************************************************************************)
(* Properties of the plugin order, connect() and close().                  *)
(***************************************************************************)
\* the module a resolvable name stands for
Desc(name) == ResolvePlugin(name)[1]

\* the phase of a handler: the place of its plugin's type in ConnectorsPriority
PhaseOf(h) == IndexOf(ConnectorsPriority, Desc(h.plugin).type)

\* C1: in every connect() call the connectors are started in ascending order
\* of ConnectorsPriority, and within one phase in the order their plugins were
\* attached (the n-th attached plugin before the m-th, n < m)
C1_ConnectOrder ==
  LET started == walk["connect"].started
  IN \A i, j \in DOMAIN started :
       i < j => \/ PhaseOf(started[i]) < PhaseOf(started[j])
                \/ /\ PhaseOf(started[i]) = PhaseOf(started[j])
                   /\ started[i].n < started[j].n

\* a connect() that ran a database connector and then a transport connector
\* although the transport plugin is listed first in config.plugins
C1_Witness ==
  /\ walk["connect"].status = "resolved"
  /\ Len(walk["connect"].responses) >= 2
  /\ Len(config.plugins) >= 2
  /\ \E i, j \in DOMAIN config.plugins :
       /\ i < j
       /\ Desc(config.plugins[i]).type = "transport"
       /\ Desc(config.plugins[j]).type = "database"
  /\ \E i, j \in DOMAIN walk["connect"].started :
       /\ i < j
       /\ Desc(walk["connect"].started[i].plugin).type = "database"
       /\ Desc(walk["connect"].started[j].plugin).type = "transport"

\* C2: in every close() call the destructors are started in the reverse of
\* ConnectorsPriority, and within one phase last registered first
C2_CloseOrder ==
  LET started == walk["close"].started
  IN \A i, j \in DOMAIN started :
       i < j => \/ PhaseOf(started[i]) > PhaseOf(started[j])
                \/ /\ PhaseOf(started[i]) = PhaseOf(started[j])
                   /\ started[i].n > started[j].n

\* a close() that ran two destructors of one phase, and one of another phase
C2_Witness ==
  /\ walk["close"].status = "resolved"
  /\ \E i, j, k \in DOMAIN walk["close"].started :
       LET started == walk["close"].started
       IN /\ i < j /\ j < k
          /\ PhaseOf(started[i]) = PhaseOf(started[j])
          /\ started[i].n > started[j].n
          /\ PhaseOf(started[j]) > PhaseOf(started[k])

\* the sort key of the claim: the place of the type in PluginsPriority, then the priority
KeyLess(a, b) ==
  \/ IndexOf(PluginsPriority, a.type) < IndexOf(PluginsPriority, b.type)
  \/ /\ IndexOf(PluginsPriority, a.type) = IndexOf(PluginsPriority, b.type)
     /\ PriorityLess(a.priority, b.priority)

\* the place config.plugins[i] must take: after every entry with a smaller key
\* and after every earlier entry with an equal key
RankOf(names, i) ==
  1 + Cardinality({j \in DOMAIN names :
                     \/ KeyLess(Desc(names[j]), Desc(names[i]))
                     \/ /\ ~KeyLess(Desc(names[i]), Desc(names[j]))
                        /\ j < i})

ExpectedAttachOrder(names) ==
  [r \in DOMAIN names |-> names[CHOOSE i \in DOMAIN names : RankOf(names, i) = r]]

\* the attach calls made by the constructor's pass (later initPlugin calls follow them)
PassAttached ==
  [i \in 1..(IF Len(attachLog) < Len(config.plugins) THEN Len(attachLog)
             ELSE Len(config.plugins)) |-> attachLog[i].name]

\* C3: initPlugins calls attach in the configured order sorted by (place of the
\* type in PluginsPriority, priority), equal keys keeping their configured order;
\* a pass that a throw ended has called a prefix of that order
C3_AttachOrder ==
  (pc # "new" /\ Unresolved(config.plugins) = None) =>
    /\ PassAttached = SubSeq(ExpectedAttachOrder(config.plugins), 1, Len(PassAttached))
    /\ pc = "constructed" => Len(PassAttached) = Len(config.plugins)

\* a constructed instance attached in another order than configured, with two
\* different plugins of the same phase and priority among them
C3_Witness ==
  /\ pc = "constructed"
  /\ PassAttached # config.plugins
  /\ \E i, j \in DOMAIN config.plugins :
       /\ i < j
       /\ config.plugins[i] # config.plugins[j]
       /\ ~KeyLess(Desc(config.plugins[i]), Desc(config.plugins[j]))
       /\ ~KeyLess(Desc(config.plugins[j]), Desc(config.plugins[i]))

(***************************************************************************)
(* Properties of hook().                                                   *)
(***************************************************************************)
IsPrefix(a, b) == Len(a) <= Len(b) /\ a = SubSeq(b, 1, Len(a))

\* C4: a hook() call that resolved resolved to one entry per listener that was
\* registered for the event when it was called, entry i being the result of
\* the i-th registered listener, in whatever order the promises settled
C4_HookResultOrder ==
  hookCall.status = "resolved" =>
    /\ IsPrefix(hookCall.listeners, listeners[hookCall.event])
    /\ Len(hookCall.result) = Len(hookCall.listeners)
    /\ \A i \in DOMAIN hookCall.listeners :
         hookCall.result[i] = ListenerValue(hookCall.listeners[i], hookCall.args)

\* a resolved call on two different listeners, the promise of the second having
\* settled before the promise of the first
C4_Witness ==
  /\ hookCall.status = "resolved"
  /\ Len(hookCall.listeners) >= 2
  /\ hookCall.listeners[1] # hookCall.listeners[2]
  /\ \E k, m \in DOMAIN hookCall.settled :
       k < m /\ hookCall.settled[k] > hookCall.settled[m]

\* C5 (as claimed): every hook() call invokes every listener registered for the
\* event exactly once, in order, with the arguments of the call, whatever the
\* other listeners do
C5_AllListenersInvoked ==
  hookCall.status # "idle" =>
    hookCall.invoked =
      [i \in DOMAIN hookCall.listeners |-> Invocation(hookCall.listeners[i], hookCall.args)]

\* C6: hook() is rejected as soon as a listener threw or a promise a listener
\* returned is rejected, and it resolves only when every listener succeeded
C6_FailTogether ==
  /\ hookCall.status = "resolved" =>
       /\ hookCall.threw = 0
       /\ Len(hookCall.work) = Len(hookCall.listeners)
       /\ \A i \in DOMAIN hookCall.work : hookCall.work[i].state = "fulfilled"
  /\ (\/ hookCall.threw # 0
      \/ \E i \in DOMAIN hookCall.work : hookCall.work[i].state = "rejected")
       => /\ hookCall.status = "rejected"
          /\ hookCall.error # None

\* a rejected call: one listener's promise was fulfilled, another's was rejected
C6_Witness ==
  /\ hookCall.status = "rejected"
  /\ hookCall.threw = 0
  /\ \E i, j \in DOMAIN hookCall.work :
       /\ hookCall.work[i].state = "fulfilled"
       /\ i \in Range(hookCall.settled)
       /\ hookCall.work[j].state = "rejected"

(***************************************************************************)
(* Properties of the extension engine.                                     *)
(***************************************************************************)
\* the handlers requested for a point, in the order of the requests
RequestedFor(point) == SelectSeq(extensions.requests, LAMBDA r : r.point = point)

\* C7: exec on a point that was not enabled is rejected with a NotSupportedError
\* whose message is "Not Supported: <pointName>", and invokes no handler
C7_ExecNotSupported ==
  (extCall.status # "idle" /\ extCall.point \notin extensions.config.enabled) =>
    /\ extCall.status = "rejected"
    /\ extCall.invoked = <<>>
    /\ extCall.error # None
    /\ extCall.error[1].kind = "NotSupportedError"
    /\ extCall.error[1].message = "Not Supported: " \o extCall.point
    /\ extCall.point = "postPreHandler" =>
         extCall.error[1].message = "Not Supported: postPreHandler"

\* new Extensions() and exec('postPreHandler', ['foo'])
C7_Witness ==
  /\ extensions.built
  /\ extensions.config = DefaultExtConfig
  /\ extCall.status = "rejected"
  /\ extCall.point = "postPreHandler"
  /\ extCall.args = <<"foo">>

\* C8: exec on an enabled point invokes the handlers requested for that point,
\* and no other, in the order of the requests and with args; one handler that
\* resolves its input makes it resolve to args; it does not fail unless a
\* handler of its own point does
C8_ExecEnabled ==
  (extCall.status # "idle" /\ extCall.point \in extensions.config.enabled) =>
    LET mine == RequestedFor(extCall.point)
    IN /\ extCall.invoked = [i \in DOMAIN mine |->
                               [point |-> extCall.point, handler |-> mine[i].handler,
                                args |-> extCall.args]]
       /\ (Len(mine) = 1 /\ mine[1].handler = "resolve") =>
            (extCall.status = "resolved" /\ extCall.result = extCall.args)
       /\ (\A i \in DOMAIN mine : mine[i].handler # "reject") =>
            extCall.status = "resolved"

\* postHandler has the one handler that resolves its input, preHandler has a
\* rejecting handler and a later one, and exec('postHandler', ['foo']) resolved
C8_Witness ==
  /\ extCall.status = "resolved"
  /\ extCall.point = "postHandler"
  /\ extCall.result = <<"foo">>
  /\ Len(extCall.invoked) = 1
  /\ Len(RequestedFor("preHandler")) >= 2
  /\ RequestedFor("preHandler")[1].handler = "reject"
  /\ "preHandler" \in extensions.config.enabled

\* C9: the enabled points are those of the configuration for ever; a register
\* on any other point stores nothing, and exec on it stays Not Supported and
\* runs none of the handlers that were registered against it
C9_DisabledStaysRejected ==
  extensions.built =>
    /\ DOMAIN extensions.handlers = extensions.config.enabled
    /\ \A p \in extensions.config.enabled :
         Len(extensions.handlers[p]) = Len(RequestedFor(p))
    /\ (extCall.status # "idle" /\ extCall.point \notin extensions.config.enabled) =>
         /\ extCall.status = "rejected"
         /\ extCall.error = Some(NotSupportedError(extCall.point))
         /\ extCall.invoked = <<>>

\* a handler was registered against a point that is not enabled, and an exec on
\* that point was rejected
C9_Witness ==
  /\ extensions.built
  /\ extCall.status = "rejected"
  /\ extCall.point \notin extensions.config.enabled
  /\ Len(RequestedFor(extCall.point)) >= 2

(***************************************************************************)
(* Properties of getHealthStatus().                                        *)
(***************************************************************************)
\* C10: the summary holds every registered probe in exactly one of alive and
\* failed, and a probe is alive exactly when its own last try passed
C10_HealthPartition ==
  health.status = "done" =>
    /\ Len(health.summary.alive) + Len(health.summary.failed) = Len(healthChecks)
    /\ \A i \in DOMAIN healthChecks :
         /\ (healthChecks[i] \in Range(health.summary.alive))
              # (healthChecks[i] \in Range(health.summary.failed))
         /\ (healthChecks[i] \in Range(health.summary.alive)) <=> (health.last[i] = "ok")

\* a summary of three probes: one passed, one failed every try, one timed out
C10_Witness ==
  /\ health.status = "done"
  /\ Len(health.summary.alive) >= 1
  /\ Len(health.summary.failed) >= 2
  /\ \E i, j \in DOMAIN health.last :
       health.last[i] = "error" /\ health.last[j] = "timeout"

\* C11: the status of a summary is OK exactly when its failed list is empty and
\* FAIL otherwise; probes that all pass give OK with every registered probe
\* alive; one probe that passes and one that fails every try give one alive,
\* one failed and FAIL
C11_StatusReflectsFailed ==
  health.status = "done" =>
    /\ health.summary.status \in {PLUGIN_STATUS_OK, PLUGIN_STATUS_FAIL}
    /\ (health.summary.status = PLUGIN_STATUS_OK) <=> (health.summary.failed = <<>>)
    /\ (\A i \in DOMAIN health.last : health.last[i] = "ok") =>
         /\ health.summary.status = PLUGIN_STATUS_OK
         /\ Len(health.summary.alive) = Len(getHealthChecks)
    /\ (/\ Len(health.probes) = 2
        /\ \E i, j \in DOMAIN health.last :
             health.last[i] = "ok" /\ health.last[j] # "ok")
         => /\ Len(health.summary.failed) = 1
            /\ Len(health.summary.alive) = 1
            /\ health.summary.status = PLUGIN_STATUS_FAIL

\* the summary of two probes, one that passed and one that rejected every try
C11_Witness ==
  /\ health.status = "done"
  /\ Len(health.probes) = 2
  /\ \E i, j \in DOMAIN health.last :
       /\ health.last[i] = "ok"
       /\ health.last[j] = "error" /\ health.tries[j] = MaxTries
  /\ health.summary.status = PLUGIN_STATUS_FAIL
  /\ Len(health.summary.failed) = 1

(***************************************************************************)
(* Properties of the attach pass and of its failures.                      *)
(***************************************************************************)
\* the last call of an attach function threw
AttachThrew == attachLog # <<>> /\ attachLog[Len(attachLog)].error # None

\* every handler held by the connector and destructor collections and the probe list
AllHandlers ==
  UNION {Range(connectors[t]) : t \in DOMAIN connectors}
    \cup UNION {Range(destructors[t]) : t \in DOMAIN destructors}
    \cup Range(healthChecks)

\* the attach calls that returned, in the order they were made
Returned == SelectSeq(attachLog, LAMBDA a : a.error = None)

\* C12: a throw of an attach function ends the pass (no attach call follows
\* it), the plugin list holds exactly the plugins whose attach returned before
\* it, and every connector, destructor and probe belongs to a listed plugin
C12_FailedAttachLeavesNothing ==
  /\ pc = "failed" =>
       \A i \in DOMAIN attachLog : attachLog[i].error # None => i = Len(attachLog)
  /\ AttachThrew =>
       /\ thrown # None
       /\ plugins = attachLog[Len(attachLog)].before
       /\ plugins = [i \in DOMAIN Returned |-> Returned[i].name]
       /\ \A h \in AllHandlers : h.n \in DOMAIN plugins /\ plugins[h.n] = h.plugin

\* construction failed in the attach of a plugin that exposes handlers, after
\* a plugin that registered a connector and before a plugin still to attach
C12_Witness ==
  /\ pc = "failed"
  /\ AttachThrew
  /\ Len(attachLog) >= 2
  /\ Len(config.plugins) > Len(attachLog)
  /\ Desc(attachLog[Len(attachLog)].name).expose # None
  /\ attachLog[Len(attachLog)].name \notin Range(plugins)
  /\ \E t \in DOMAIN connectors : connectors[t] # <<>>

\* C13 (as claimed): the error the constructor or initPlugin throws is the
\* error the attach function threw, kind and message alike
C13_AttachErrorUnchanged ==
  AttachThrew => thrown = attachLog[Len(attachLog)].error

\* C14: a name is resolved to the local module when there is one, else to the
\* shared one, else to nothing; a configuration with a name that resolves to
\* nothing makes the constructor throw with no attach function called, no
\* plugin listed and no handler stored
C14_UnresolvedFailsFast ==
  /\ \A name \in PluginNames :
       ResolvePlugin(name) =
         IF name \in DOMAIN LocalModules THEN Some(LocalModules[name])
         ELSE IF name \in DOMAIN SharedModules THEN Some(SharedModules[name])
         ELSE None
  /\ (pc # "new" /\ \E i \in DOMAIN config.plugins : ResolvePlugin(config.plugins[i]) = None)
       => /\ pc = "failed"
          /\ thrown # None
          /\ thrown[1].kind = "Error"
          /\ attachLog = <<>>
          /\ plugins = <<>>
          /\ AllHandlers = {}

\* construction failed on a name listed after a plugin that exposes handlers,
\* and the attach of that plugin was never called
C14_Witness ==
  /\ pc = "failed"
  /\ Len(config.plugins) >= 2
  /\ config.plugins[1] = "redisCluster"
  /\ ResolvePlugin(config.plugins[2]) = None
  /\ attachLog = <<>>

\* C17 (as claimed): the attached-plugin list never holds a name twice
C17_UniqueNames ==
  \A i, j \in DOMAIN plugins : i # j => plugins[i] # plugins[j]

\* C21 (as claimed): an initPlugin call on a module whose type is not a
\* connector type, its attach having returned, throws and leaves the plugin
\* list as it was before the call
C21_UnknownTypeRejected ==
  (/\ attachLog # <<>>
   /\ attachLog[Len(attachLog)].error = None
   /\ ConnectorsTypes(Desc(attachLog[Len(attachLog)].name).type) = None)
    => /\ thrown # None
       /\ plugins = attachLog[Len(attachLog)].before

\* C23: the k-th attach call of the constructor is made on the k-th plugin of
\* the attach order, with this.plugins holding the k-1 plugins before it;
\* hasPlugin(q) is then true exactly for the names that come before it in that
\* order, so false for its own name and the names behind it unless the same
\* name also comes before; the http plugin, which asserts hasPlugin of the
\* validator, fails on it only when the validator is not configured
C23_HasPluginAtAttach ==
  (pc # "new" /\ \A i \in DOMAIN config.plugins : ResolvePlugin(config.plugins[i]) # None) =>
    /\ \A order \in {ExpectedAttachOrder(config.plugins)} :
         \A k \in DOMAIN PassAttached :
           /\ attachLog[k].name = order[k]
           /\ attachLog[k].before = SubSeq(order, 1, k - 1)
           /\ \A m \in DOMAIN order :
                hasPlugin(attachLog[k].before, order[m])
                  <=> \E j \in 1..(k - 1) : order[j] = order[m]
    /\ (pc = "failed" /\ thrown[1].kind = "NotFoundError") =>
         "validator" \notin Range(config.plugins)

\* the http plugin is configured before the validator and before a database
\* plugin, and its attach was called last, with both of them attached
C23_Witness ==
  /\ pc = "constructed"
  /\ Len(config.plugins) = 3
  /\ config.plugins[1] = "http"
  /\ config.plugins[3] = "validator"
  /\ Len(attachLog) >= 3
  /\ attachLog[3].name = "http"
  /\ hasPlugin(attachLog[3].before, "validator")
  /\ ~hasPlugin(attachLog[3].before, "http")

(***************************************************************************)
(* Properties of the error policy.                                         *)
(***************************************************************************)
\* C15: an emit('error', err) on an instance whose only 'error' listener is the
\* default handler throws err to the emitter; with any other listener attached
\* the default handler returns, emit throws nothing, and every other listener
\* is called with err
C15_ErrorPolicy ==
  emission.status = "done" =>
    LET ls == emission.listeners
        err == emission.err[1]
    IN /\ ls = <<"onError">> =>
            /\ emission.threw = Some(err)
            /\ emission.calls = <<[listener |-> "onError", err |-> err, threw |-> TRUE]>>
       /\ (Len(ls) > 1 /\ "onError" \in Range(ls)) =>
            /\ emission.threw = None
            /\ emission.calls =
                 [i \in DOMAIN ls |-> [listener |-> ls[i], err |-> err, threw |-> FALSE]]

\* an error emitted while two listeners besides the default one were attached,
\* one of them by config.hooks, and both were called
C15_Witness ==
  /\ emission.status = "done"
  /\ "error" \in DOMAIN config.hooks
  /\ Len(emission.listeners) = 3
  /\ emission.listeners[1] = "onError"
  /\ emission.threw = None
  /\ Len(emission.calls) = 3

(***************************************************************************)
(* Properties of one connect() or close() call.                            *)
(***************************************************************************)
\* the handlers of a collection in the order of a priority list
RECURSIVE HandlersInOrder(_, _)
HandlersInOrder(collection, priority) ==
  IF priority = <<>> THEN <<>>
  ELSE (IF Head(priority) \in DOMAIN collection THEN collection[Head(priority)] ELSE <<>>)
         \o HandlersInOrder(collection, Tail(priority))

\* C16: a connect() (close()) that resolved has emitted 'ready' ('close') once,
\* has run every connector (destructor) to completion, and resolved to one
\* result per handler in the order they ran; a call that is still running or
\* that was rejected has emitted nothing
C16_EmitOnceAfterLast ==
  \A kind \in Kinds :
    LET w == walk[kind]
    IN /\ w.status = "resolved" =>
            /\ w.emitted = <<EventOf(kind)>>
            /\ w.started = HandlersInOrder(getCollection(kind), PriorityOf(kind))
            /\ w.responses = w.started
       /\ w.status # "resolved" => w.emitted = <<>>

\* a connect() that resolved to three results, of connectors of two phases
C16_Witness ==
  /\ walk["connect"].status = "resolved"
  /\ walk["connect"].emitted = <<"ready">>
  /\ Len(walk["connect"].responses) = 3
  /\ \E i, j \in DOMAIN walk["connect"].responses :
       PhaseOf(walk["connect"].responses[i]) # PhaseOf(walk["connect"].responses[j])

\* C19: in a connect() or close() call every handler that was started, but
\* for the last one, has completed before the next was started: at most one
\* handler is in flight, within a phase and from one phase to the next
C19_OneInFlight ==
  \A kind \in Kinds :
    LET w == walk[kind]
    IN /\ IsPrefix(w.responses, w.started)
       /\ Len(w.started) - Len(w.responses) \in {0, 1}
       /\ w.status = "awaiting" => Len(w.started) = Len(w.responses) + 1
       /\ w.status = "resolved" => Len(w.started) = Len(w.responses)

\* a close() waiting for its third destructor, the first two, of different
\* phases or of one, having completed
C19_Witness ==
  /\ walk["close"].status = "awaiting"
  /\ Len(walk["close"].started) = 3
  /\ Len(walk["close"].responses) = 2
  /\ PhaseOf(walk["close"].started[2]) # PhaseOf(walk["close"].started[3])

\* C22: a connect() or close() that was rejected was rejected with the error
\* of the handler it started last, every handler before that one completed,
\* no handler behind it was started, and the event was not emitted
C22_FailureStopsWalk ==
  \A kind \in Kinds :
    LET w == walk[kind]
    IN w.status = "rejected" =>
         /\ w.started # <<>>
         /\ w.error = Some(HandlerError(w.started[Len(w.started)]))
         /\ w.responses = SubSeq(w.started, 1, Len(w.started) - 1)
         /\ IsPrefix(w.started, HandlersInOrder(getCollection(kind), PriorityOf(kind)))
         /\ w.emitted = <<>>

\* a close() rejected by its second destructor, a third one left un-run
C22_Witness ==
  /\ walk["close"].status = "rejected"
  /\ Len(walk["close"].started) = 2
  /\ Len(walk["close"].responses) = 1
  /\ Len(HandlersInOrder(getCollection("close"), PriorityOf("close"))) = 3
  /\ walk["close"].emitted = <<>>

(***************************************************************************)
(* Properties of exit().                                                   *)
(***************************************************************************)
\* C18: the process is ended, with code 128, exactly when an exit() that
\* started its close() and its timer saw the close() reject or the deadline
\* elapse while the close() was still running;
\* the close() is then left where it stood, nothing emitted; an exit() whose
\* close() resolved first ends without ending the process, whatever the timer
\* does afterwards
C18_ExitRace ==
  LET closing == walk["close"]
      lost == \/ closing.status = "rejected"
              \/ shutdown.timer = "elapsed" /\ closing.status = "awaiting"
  IN /\ proc.exitCode \in {None, Some(128)}
     /\ (proc.exitCode = Some(128)) <=> (shutdown.status = "terminated")
     /\ (shutdown.status = "terminated") <=> (shutdown.timer # "off" /\ lost)
     /\ shutdown.status = "racing" => (shutdown.timer = "armed" /\ closing.status = "awaiting")
     /\ shutdown.status = "resolved" => (closing.status = "resolved" /\ proc.exitCode = None)
     /\ shutdown.status = "terminated" =>
          /\ closing.emitted = <<>>
          /\ IsPrefix(closing.started,
                      HandlersInOrder(getCollection("close"), PriorityOf("close")))
          /\ shutdown.error = IF closing.status = "rejected" THEN closing.error
                              ELSE Some(Err("TimeoutError", "failed to close after 10 seconds"))

\* the deadline elapsed while the first of two destructors was running: the
\* process ended with 128 and the second destructor was never started
C18_Witness ==
  /\ proc.exitCode = Some(128)
  /\ shutdown.timer = "elapsed"
  /\ walk["close"].status = "awaiting"
  /\ Len(walk["close"].started) = 1
  /\ Len(HandlersInOrder(getCollection("close"), PriorityOf("close"))) = 2

\* C24: a listener of SIGTERM/SIGINT is added only in the step in which a
\* connect() resolves, having run every connector to completion and emitted
\* 'ready', and only under config.sigterm; an exit() starts only in a step
\* that takes such a listener off its signal; so without config.sigterm, or
\* before an instance is constructed, no signal listener exists and no exit()
\* has started a close()
C24_SignalsAfterReady ==
  /\ [][/\ (\E sig \in Signals : proc'.signals[sig] > proc.signals[sig]) =>
              (/\ config.sigterm
               /\ pc = "constructed"
               /\ walk["connect"].status \in {"idle", "awaiting"}
               /\ walk'["connect"].status = "resolved"
               /\ walk'["connect"].emitted = <<"ready">>
               /\ walk'["connect"].responses = HandlersInOrder(connectors, ConnectorsPriority)
               /\ walk'["close"] = walk["close"]
               /\ shutdown' = shutdown)
        /\ (shutdown.status = "idle" /\ shutdown'.status # "idle") =>
              (\E sig \in Signals : /\ proc.signals[sig] > 0
                                    /\ proc'.signals[sig] = proc.signals[sig] - 1)
       ]_vars
  /\ []((~config.sigterm \/ pc # "constructed") =>
          /\ \A sig \in Signals : proc.signals[sig] = 0
          /\ shutdown = IdleExit)

\* a SIGTERM after a connect() that ran two connectors started an exit() whose
\* close() is running; the listener of SIGINT is still there
C24_Witness ==
  /\ config.sigterm
  /\ shutdown.status = "racing"
  /\ walk["close"].status = "awaiting"
  /\ proc.signals["SIGTERM"] = 0
  /\ proc.signals["SIGINT"] = 1
  /\ Len(HandlersInOrder(connectors, ConnectorsPriority)) = 2

(***************************************************************************)
(* Properties of the constructor's order: attach pass, then hooks.         *)
(***************************************************************************)
\* the functions config.hooks gives for an event
Configured(event) ==
  IF event \in DOMAIN config.hooks THEN Range(toArray(config.hooks[event])) ELSE {}

\* C25: every event emitted while the constructor ran had no function of
\* config.hooks among its listeners; the constructor that returned emitted
\* 'init' once, as the last event of the attach pass, to no listener, and has
\* the configured hooks registered afterwards; an 'error' event a plugin
\* emitted while attaching had onError as its only listener, was thrown by it
\* and made the constructor throw that error, with no hook registered and
\* no 'init' emitted, config.hooks.error or not
C25_HooksAfterAttachPass ==
  /\ pc = "new" => passEmits = <<>>
  /\ \A i \in DOMAIN passEmits :
       Range(passEmits[i].listeners) \cap Configured(passEmits[i].event) = {}
  /\ pc = "constructed" =>
       /\ passEmits = <<[event |-> "init", err |-> None, listeners |-> <<>>, threw |-> None]>>
       /\ \A e \in DOMAIN config.hooks :
            IsPrefix((IF e = "error" THEN <<"onError">> ELSE <<>>) \o toArray(config.hooks[e]),
                     listeners[e])
  /\ pc = "failed" =>
       /\ listeners = On([e \in Events |-> <<>>], "error", "onError")
       /\ Len(passEmits) <= 1
       /\ \A i \in DOMAIN passEmits :
            /\ passEmits[i].event = "error"
            /\ passEmits[i].listeners = <<"onError">>
            /\ passEmits[i].threw = passEmits[i].err
            /\ attachLog # <<>>
            /\ attachLog[Len(attachLog)].error = passEmits[i].err
            /\ thrown # None
            /\ thrown[1].kind = passEmits[i].err[1].kind

\* the second plugin to attach emitted 'error' and the constructor threw that
\* error, under a config.hooks with handlers for 'error' and for 'init'
C25_Witness ==
  /\ pc = "failed"
  /\ Configured("error") # {}
  /\ Configured("init") # {}
  /\ Len(attachLog) = 2
  /\ Len(passEmits) = 1
  /\ passEmits[1].event = "error"
  /\ passEmits[1].threw = Some(Err("Error", "attach failed"))
  /\ thrown = Some(Err("Error", "attach failed"))

(***************************************************************************)
(* Properties of the collections over the life of an instance.             *)
(***************************************************************************)
\* what the attach pass of the constructor stores for a configuration
AttachPass(cfg) == initPlugins(cfg, None)

\* the four collections are as the attach pass left them
AsAttached ==
  /\ plugins = AttachPass(config).plugins
  /\ connectors = AttachPass(config).connectors
  /\ destructors = AttachPass(config).destructors
  /\ healthChecks = AttachPass(config).healthChecks

\* C20: once the instance is constructed, no step of connect(), close(),
\* hook() or getHealthStatus() changes the plugin list, the connector and
\* destructor collections or the probe list: they stay as the attach pass
\* left them, and every connect() and close() that completes, the first as
\* any later one, has run the handlers the attach pass stored, in their order
C20_AttachPassOnlyWriter ==
  /\ [][pc = "constructed" =>
          UNCHANGED <<plugins, connectors, destructors, healthChecks>>]_vars
  /\ [](pc = "constructed" =>
          /\ AsAttached
          /\ \A kind \in Kinds :
               walk[kind].status = "resolved" =>
                 walk[kind].started =
                   HandlersInOrder(IF kind = "connect" THEN AttachPass(config).connectors
                                   ELSE AttachPass(config).destructors,
                                   PriorityOf(kind)))

\* a connect(), a close(), a hook() and a getHealthStatus() have all completed
\* on an instance with two connectors, two destructors and probes
C20_Witness ==
  /\ walk["connect"].status = "resolved"
  /\ Len(walk["connect"].started) = 2
  /\ walk["close"].status = "resolved"
  /\ Len(walk["close"].started) = 2
  /\ hookCall.status = "resolved"
  /\ hookCall.result # <<>>
  /\ health.status = "done"
  /\ health.probes # <<>>
  /\ AsAttached

====
